---- MODULE Spec2Model ----
(***************************************************************************)
(* The thread / stream lifecycle of the <radikari-chat> web component:     *)
(* RadikariChat._sendMessage, _sendMessageWithNewThread, _processStream,   *)
(* the ApiClient (createThread, sendMessageStream) and the sessionStorage  *)
(* wrapper Storage.                                                        *)
(*                                                                         *)
(* JavaScript runs each handler to its next await without interleaving, so *)
(* an action is one such run: from an event (key press, network            *)
(* completion, chunk arrival, teardown) to the next suspension point.      *)
(* Strings the program computes with (input text, message contents,        *)
(* deltas) are sequences of one-character strings; nullable values are     *)
(* Null (<<>>) or Some(x) (<<x>>).                                          *)
(***************************************************************************)
EXTENDS Naturals, Sequences, FiniteSets

\* ------------------------------------------------------------------ bounds
\* user-initiated sends that are accepted in one behaviour
MaxSends == 2
\* threads the server creates in one behaviour
MaxThreads == 2
\* chunks the server delivers on one stream
MaxReads == 2
\* calls of Storage made in one behaviour of the store on its own
MaxOps == 3
\* calls of ApiClient made in one behaviour of the client on its own
MaxCalls == 1
\* how many chunks the stream fed to the decoder on its own is cut into
MaxChunks == 3

\* ------------------------------------------------------------ basic values
Null == <<>>
Some(x) == <<x>>

Tenants == {"acme", "beta"}
TenantIdValues == {"", "acme"}
ApiBaseUrlValues == {"", "http://localhost:3010"}

\* what the user can have typed into the textarea
InputValues == { <<" ">>, <<" ", "h", "i", " ">> }

IsSpace(c) == c \in {" ", "\n", "\t"}

RECURSIVE TrimStart(_)
TrimStart(s) ==
  IF s # <<>> /\ IsSpace(Head(s)) THEN TrimStart(Tail(s)) ELSE s

RECURSIVE TrimEnd(_)
TrimEnd(s) ==
  IF s # <<>> /\ IsSpace(s[Len(s)]) THEN TrimEnd(SubSeq(s, 1, Len(s) - 1)) ELSE s

\* String.prototype.trim as _sendMessage uses it on inputValue
TrimIdentity(s) == s
Trim(s) == TrimEnd(TrimStart(s))

\* ids the server hands out, in the order it creates threads
ThreadName == <<"t1", "t2", "t3", "t4">>
\* an id left in sessionStorage by an earlier page of the same tab
OldThread == "t0"
Sentinel == "undefined"

UserMsg(text) == [role |-> "user", content |-> text]
AssistantMsg == [role |-> "assistant", content |-> <<>>]

\* ------------------------------------------------------------------ errors
ApiError(status, message) ==
  [name |-> "ApiError", api |-> TRUE, status |-> status, message |-> message]
PlatformError(name, message) ==
  [name |-> name, api |-> FALSE, status |-> 0, message |-> message]
AbortError == PlatformError("AbortError", "The user aborted a request.")
FetchFailed == PlatformError("TypeError", "Failed to fetch")
NullSignal ==
  PlatformError("TypeError", "Cannot read properties of null (reading 'signal')")

Returned(v) == [ok |-> TRUE, value |-> v, error |-> AbortError]
Thrown(e) == [ok |-> FALSE, value |-> "", error |-> e]

IsOk(status) == status >= 200 /\ status <= 299

\* --------------------------------------------------------------- ApiClient
\* responses of POST .../threads: fetch rejects (net = FALSE) or resolves
\* with a status and a body; body "thread" is {content: {threadId, ...}}
CreateBodies == {"thread", "nocontent", "nothreadid", "notjson"}
CreateResponses ==
  { [net |-> FALSE, status |-> 0, body |-> "notjson"] } \cup
  { [net |-> TRUE, status |-> st, body |-> b] :
      st \in {200, 404, 500}, b \in CreateBodies }

\* a createThread that returns result.content unchecked
CreateWithoutValidation(resp, id) ==
  IF ~resp.net THEN Thrown(FetchFailed)
  ELSE IF ~IsOk(resp.status)
    THEN Thrown(ApiError(resp.status, "Failed to create chat thread"))
  ELSE IF resp.body = "notjson"
    THEN Thrown(PlatformError("SyntaxError", "Unexpected token < in JSON"))
  ELSE Returned(IF resp.body = "thread" THEN id ELSE "")

\* ApiClient.createThread once fetch has settled with resp; id is the
\* threadId of a well-formed body
ApiClient_createThread(resp, id) ==
  IF ~resp.net THEN Thrown(FetchFailed)
  ELSE IF ~IsOk(resp.status)
    THEN Thrown(ApiError(resp.status, "Failed to create chat thread"))
  ELSE IF resp.body = "notjson"
    THEN Thrown(PlatformError("SyntaxError", "Unexpected token < in JSON"))
  ELSE IF resp.body = "nocontent"
    THEN Thrown(ApiError(resp.status, "Invalid thread creation response"))
  ELSE IF resp.body = "nothreadid"
    THEN Thrown(ApiError(resp.status, "No threadId in response"))
  ELSE Returned(id)

\* responses of POST .../stream: text is the error body, hasBody whether
\* response.body is a stream
SendResponses ==
  { [net |-> FALSE, status |-> 0, text |-> "", hasBody |-> FALSE] } \cup
  { [net |-> TRUE, status |-> 200, text |-> "", hasBody |-> b] : b \in BOOLEAN } \cup
  { [net |-> TRUE, status |-> st, text |-> tx, hasBody |-> FALSE] :
      st \in {404, 500}, tx \in {"", "upstream down"} }

\* a sendMessageStream without its test of status 404
SendWithoutExpiry(resp) ==
  IF ~resp.net THEN Thrown(FetchFailed)
  ELSE IF ~IsOk(resp.status)
    THEN Thrown(ApiError(resp.status,
                         IF resp.text # "" THEN resp.text
                         ELSE "Failed to send message"))
  ELSE Returned("response")

\* ApiClient.sendMessageStream once fetch has settled with resp
ApiClient_sendMessageStream(resp) ==
  IF ~resp.net THEN Thrown(FetchFailed)
  ELSE IF resp.status = 404
    THEN Thrown(ApiError(404, "Thread expired or not found"))
  ELSE IF ~IsOk(resp.status)
    THEN Thrown(ApiError(resp.status,
                         IF resp.text # "" THEN resp.text
                         ELSE "Failed to send message"))
  ELSE Returned("response")

\* ----------------------------------------------------------------- Storage
PREFIX == "radikari_chat"
\* a key that does not depend on the tenant
SharedKey(tenant) == <<PREFIX, "thread_id", "acme">>
getThreadKey(tenant) == <<PREFIX, "thread_id", tenant>>
StorageKeys == { getThreadKey(t) : t \in Tenants }

\* ------------------------------------------------------------ stream lines
\* a line as chunk.split("\n") yields it: whether it starts with "data: ",
\* whether the rest parses as JSON, and the type and delta of the parsed
\* object (delta <<>> when missing or empty). A line of the body that a
\* chunk boundary cuts inside its JSON payload reaches the loop as two
\* pieces: cut tells which piece, whole is the delta of the uncut line.
DataLine(type, delta) ==
  [prefix |-> TRUE, parses |-> TRUE, type |-> type, delta |-> delta,
   cut |-> "none", whole |-> <<>>]
BadJsonLine ==
  [prefix |-> TRUE, parses |-> FALSE, type |-> "", delta |-> <<>>,
   cut |-> "none", whole |-> <<>>]
CommentLine ==
  [prefix |-> FALSE, parses |-> FALSE, type |-> "", delta |-> <<>>,
   cut |-> "none", whole |-> <<>>]
\* 'data: {"type":"text-delta","del' at the end of a chunk
HeadOf(delta) ==
  [prefix |-> TRUE, parses |-> FALSE, type |-> "", delta |-> <<>>,
   cut |-> "head", whole |-> delta]
\* 'ta":"..."}' at the start of the next chunk
TailOf(delta) ==
  [prefix |-> FALSE, parses |-> FALSE, type |-> "", delta |-> <<>>,
   cut |-> "tail", whole |-> delta]

Hel == <<"H", "e", "l">>
Lo == <<"l", "o">>

\* the chunks reader.read() can deliver, each already split at "\n"
StreamChunks ==
  { << DataLine("text-delta", Hel), CommentLine >>,
    << BadJsonLine, DataLine("text-delta", Lo) >>,
    << DataLine("finish", <<>>), DataLine("text-delta", <<>>) >> }

\* the for loop body without its test of data.type
DecodeAnyType(line) ==
  IF line.prefix /\ line.parses /\ line.delta # <<>>
  THEN line.delta
  ELSE <<>>

\* the text a line contributes: the body of the for loop of _processStream
DecodeLine(line) ==
  IF line.prefix /\ line.parses /\ line.type = "text-delta" /\ line.delta # <<>>
  THEN line.delta
  ELSE <<>>

\* ------------------------------------------------------------------- state
VARIABLES
  tenantId,        \* the tenant-id attribute
  apiBaseUrl,      \* the API base URL (attribute or getter)
  storageThrows,   \* whether window.sessionStorage throws on access
  sessionStorage,  \* the tab's sessionStorage, restricted to the thread keys
  messages,        \* this.messages
  isStreaming,     \* this.isStreaming
  error,           \* this.error
  inputValue,      \* this.inputValue
  abortController, \* this.abortController: Null or Some(controller id)
  aborted,         \* the controllers whose abort() has been called
  tasks,           \* the invocations of _sendMessage suspended at an await
  created,         \* how many threads the server has created
  invocations,     \* how many invocations of _sendMessage passed validation
  hist             \* history of the current user-initiated send

vars ==
  << tenantId, apiBaseUrl, storageThrows, sessionStorage, messages, isStreaming,
     error, inputValue, abortController, aborted, tasks, created, invocations,
     hist >>

\* the part of the state a run of component code reads and writes
State ==
  [ messages |-> messages, isStreaming |-> isStreaming, error |-> error,
    inputValue |-> inputValue, abortController |-> abortController,
    aborted |-> aborted, tasks |-> tasks, sessionStorage |-> sessionStorage,
    invocations |-> invocations, hist |-> hist ]

\* the controllers still referenced by the component or by an invocation
Live(s) ==
  { t.signal : t \in s.tasks } \cup
  { c \in 1..s.invocations : s.abortController = Some(c) }

Commit(s) ==
  /\ messages' = s.messages
  /\ isStreaming' = s.isStreaming
  /\ error' = s.error
  /\ inputValue' = s.inputValue
  /\ abortController' = s.abortController
  /\ aborted' = s.aborted \cap Live(s)
  /\ tasks' = s.tasks
  /\ sessionStorage' = s.sessionStorage
  /\ invocations' = s.invocations
  /\ hist' = s.hist

NoHistory ==
  [ sends |-> 0, log |-> <<>>, before |-> <<>>, rawText |-> <<>>,
    stored |-> Null, errorSets |-> 0, retries |-> 0, lastSubmit |-> "none",
    outcome |-> "none", deltas |-> <<>>, expired |-> {},
    wire |-> <<>> ]

Event(op, t, thread) ==
  [op |-> op, root |-> t.root, thread |-> thread, text |-> t.text]

Logged(s, ev) == [s EXCEPT !.hist.log = Append(@, ev)]

\* ----------------------------------------------------------------- Storage
Storage_getThreadId(store, tenant) ==
  IF storageThrows THEN Null ELSE store[getThreadKey(tenant)]

\* a set that drops every write
SetDropped(store, tenant, threadId) == store
Storage_setThreadId(store, tenant, threadId) ==
  IF storageThrows THEN store
  ELSE [store EXCEPT ![getThreadKey(tenant)] = Some(threadId)]

\* a clear that stores the string "undefined" instead of removing the item
ClearToSentinel(store, tenant) ==
  IF storageThrows THEN store
  ELSE [store EXCEPT ![getThreadKey(tenant)] = Some(Sentinel)]
ClearNothing(store, tenant) == store
Storage_clearThreadId(store, tenant) ==
  IF storageThrows THEN store
  ELSE [store EXCEPT ![getThreadKey(tenant)] = Null]

\* -------------------------------------------------------------- controller
\* the validation at the head of _sendMessage
RejectedIgnoringStreaming(text, streaming, tenant, baseUrl) ==
  text = <<>> \/ tenant = "" \/ baseUrl = ""
Rejected(text, streaming, tenant, baseUrl) ==
  text = <<>> \/ streaming \/ tenant = "" \/ baseUrl = ""

\* "1. Ensure thread exists": whether a thread has to be created
AlwaysCreate(threadId) == TRUE
NeverCreate(threadId) == FALSE
AbsentOnly(threadId) == threadId = Null
NeedsThread(threadId) == threadId = Null \/ threadId = Some(Sentinel)

\* a catch that takes the assistant message back when the send is aborted
CatchRollingBack(s, e) ==
  IF e.name = "AbortError"
  THEN [s EXCEPT !.messages = SubSeq(@, 1, Len(@) - 1),
                 !.hist.outcome = "aborted"]
  ELSE [s EXCEPT !.error = Some(IF e.message # "" THEN e.message
                                ELSE "Gagal mengirim pesan"),
                 !.hist.errorSets = @ + 1,
                 !.hist.outcome = "error"]

\* a catch without its test of e.name
CatchSurfacingAbort(s, e) ==
  [s EXCEPT !.error = Some(IF e.message # "" THEN e.message
                           ELSE "Gagal mengirim pesan"),
            !.hist.errorSets = @ + 1,
            !.hist.outcome = IF e.name = "AbortError" THEN "aborted" ELSE "error"]

\* a catch that reports nothing
CatchSwallowing(s, e) ==
  [s EXCEPT !.hist.outcome = IF e.name = "AbortError" THEN "aborted" ELSE "error"]

\* catch (e: any) of _sendMessage
Catch(s, e) ==
  IF e.name = "AbortError"
  THEN [s EXCEPT !.hist.outcome = "aborted"]
  ELSE [s EXCEPT !.error = Some(IF e.message # "" THEN e.message
                                ELSE "Gagal mengirim pesan"),
                 !.hist.errorSets = @ + 1,
                 !.hist.outcome = "error"]

\* a finally that resets the flag but keeps the AbortController
FinallyKeepToken(s) == [s EXCEPT !.isStreaming = FALSE]

\* a finally that resets the controller but not the flag
FinallyKeepStreaming(s) == [s EXCEPT !.abortController = Null]

\* finally of _sendMessage
Finally(s) == [s EXCEPT !.isStreaming = FALSE, !.abortController = Null]

\* a failure that takes the last message back before it is reported
SettleRollingBack(s, e) ==
  Finally(Catch([s EXCEPT !.messages = SubSeq(@, 1, Len(@) - 1)], e))

\* an invocation that ends by throwing e
Settle(s, e) == Finally(Catch(s, e))

\* an invocation that ends by falling out of the try block
Complete(s) == Finally([s EXCEPT !.hist.outcome = "ok"])

\* "2. Prepare assistant placeholder" and the call of sendMessageStream, up
\* to its await; f holds the locals of the invocation
KeepList(msgs) == msgs
WithPlaceholder(msgs) == Append(msgs, AssistantMsg)

Dispatch(s, f, threadId) ==
  LET s1 == [s EXCEPT !.messages = WithPlaceholder(@)]
      task == [f EXCEPT !.pc = "sendMessageStream", !.threadId = threadId,
                        !.msgIndex = Len(s1.messages),
                        !.signal = s1.abortController[1]]
  IN  IF s1.abortController = Null
      THEN Settle(s1, NullSignal)
      ELSE [s1 EXCEPT !.tasks = @ \cup {task},
                      !.hist.log = Append(@, Event("sendMessageStream", f, threadId)),
                      !.hist.deltas = <<>>]

\* _sendMessage between its validation and its try block: the flags, the
\* optimistic user message and the new AbortController id; h is the history
AcceptedKeepingError(s, text, id, h) ==
  [s EXCEPT !.isStreaming = TRUE,
            !.inputValue = <<>>,
            !.messages = Append(@, UserMsg(text)),
            !.abortController = Some(id),
            !.invocations = id,
            !.hist = h]
Accepted(s, text, id, h) ==
  [s EXCEPT !.isStreaming = TRUE,
            !.error = Null,
            !.inputValue = <<>>,
            !.messages = Append(@, UserMsg(text)),
            !.abortController = Some(id),
            !.invocations = id,
            !.hist = h]

\* history only: which test turned a submit of the user away
WhyRejected(s, text) ==
  IF text = <<>> THEN "rejected: empty"
  ELSE IF s.isStreaming THEN "rejected: in flight"
  ELSE "rejected: configuration"

\* a validation that resets the error before it returns
TurnedAwayClearingError(s, text) ==
  [s EXCEPT !.error = Null, !.hist.lastSubmit = WhyRejected(s, text)]

\* the return of the validation of _sendMessage: nothing but the history
TurnedAway(s, text) == [s EXCEPT !.hist.lastSubmit = WhyRejected(s, text)]

\* _sendMessage from its call to its first await (or to its return). from
\* tells who calls: the user (a key press) or the expiry recovery of the
\* invocation from.root / from.attempt.
SendMessage(s, from) ==
  LET text == Trim(s.inputValue) IN
  IF Rejected(text, s.isStreaming, tenantId, apiBaseUrl)
  THEN IF from.user THEN TurnedAway(s, text) ELSE s
  ELSE
    LET id == s.invocations + 1
        h == IF from.user
             THEN [ sends |-> s.hist.sends + 1, log |-> <<>>,
                    before |-> s.messages, rawText |-> s.inputValue,
                    stored |-> Storage_getThreadId(s.sessionStorage, tenantId),
                    errorSets |-> 0, retries |-> 0, lastSubmit |-> "accepted",
                    outcome |-> "pending", deltas |-> <<>>,
                    expired |-> s.hist.expired, wire |-> <<>> ]
             ELSE [s.hist EXCEPT !.retries = @ + 1, !.outcome = "pending"]
        s1 == Accepted(s, text, id, h)
        f == [ id |-> id, root |-> h.sends,
               attempt |-> IF from.user THEN 1 ELSE from.attempt + 1,
               text |-> text, threadId |-> Null, msgIndex |-> 0, signal |-> id,
               pc |-> "createThread", assistantText |-> <<>>, lines |-> <<>>,
               reads |-> 0 ]
        threadId == Storage_getThreadId(s1.sessionStorage, tenantId)
    IN  IF NeedsThread(threadId)
        THEN [s1 EXCEPT !.tasks = @ \cup {f},
                        !.hist.log = Append(@, Event("createThread", f, Null))]
        ELSE Dispatch(s1, f, threadId)

ByUser == [user |-> TRUE, root |-> 0, attempt |-> 0]
ByRecovery(f) == [user |-> FALSE, root |-> f.root, attempt |-> f.attempt]

\* a recovery that removes the user message and keeps the placeholder
RemoveUserMessage(msgs) == SubSeq(msgs, 1, Len(msgs) - 2) \o << msgs[Len(msgs)] >>
\* this.messages.slice(0, -2)
RemoveTurn(msgs) == SubSeq(msgs, 1, Len(msgs) - 2)
\* this.messages.slice(0, -1)
RemovePlaceholder(msgs) == SubSeq(msgs, 1, Len(msgs) - 1)

\* a recovery that runs the submit flow again as a fresh submit
ResendAsNew(s, f) ==
  SendMessage([s EXCEPT !.messages = RemovePlaceholder(@),
                        !.inputValue = f.text,
                        !.isStreaming = FALSE],
              ByRecovery(f))

\* a recovery that does not put the text back into the input
RecoverWithoutInput(s, f) ==
  SendMessage([s EXCEPT !.messages = RemovePlaceholder(@)], ByRecovery(f))

\* _sendMessageWithNewThread(text), called by the invocation f
SendMessageWithNewThread(s, f) ==
  SendMessage([s EXCEPT !.messages = RemovePlaceholder(@),
                        !.inputValue = f.text],
              ByRecovery(f))

\* "4. Handle Expiry/404 Recovery" of the invocation f: the store is cleared
\* and _sendMessageWithNewThread runs to its first await while the caller is
\* still inside its try block; the caller's finally runs when that returns
RecoverAfterCleanup(s, f) ==
  SendMessageWithNewThread(
    Finally([s EXCEPT !.sessionStorage = Storage_clearThreadId(@, tenantId),
                      !.hist.outcome = "expired"]), f)
OnThreadExpired(s, f) ==
  Finally(SendMessageWithNewThread(
    [s EXCEPT !.sessionStorage = Storage_clearThreadId(@, tenantId),
              !.hist.outcome = "expired"], f))

\* assistantText += data.delta
ReplaceByDelta(assistantText, delta) == delta
AppendDelta(assistantText, delta) == assistantText \o delta

\* ----------------------------------------------------------------- actions
Init ==
  /\ tenantId \in TenantIdValues
  /\ apiBaseUrl \in ApiBaseUrlValues
  /\ storageThrows \in BOOLEAN
  /\ sessionStorage \in [StorageKeys -> {Null, Some(OldThread), Some(Sentinel)}]
  /\ sessionStorage[getThreadKey("beta")] = Null
  /\ storageThrows => sessionStorage[getThreadKey("acme")] = Null
  /\ messages = <<>>
  /\ isStreaming = FALSE
  /\ error = Null
  /\ inputValue = <<>>
  /\ abortController = Null
  /\ aborted = {}
  /\ tasks = {}
  /\ created = 0
  /\ invocations = 0
  /\ hist = NoHistory

\* a chunk is being cut into lines and applied: no other handler runs
Running == \E t \in tasks : t.pc = "lines"

Without(t) == [State EXCEPT !.tasks = @ \ {t}]

\* _handleInput: the user edits the textarea
HandleInput(v) ==
  /\ ~Running
  /\ v # inputValue
  /\ inputValue' = v
  /\ UNCHANGED << tenantId, apiBaseUrl, storageThrows, sessionStorage, messages,
                  isStreaming, error, abortController, aborted, tasks, created,
                  invocations, hist >>

\* _handleKeyDown (Enter) or the send button: the user calls _sendMessage
HandleKeyDown ==
  /\ ~Running
  /\ \/ hist.sends < MaxSends
     \/ SendMessage(State, ByUser).invocations = invocations
  /\ Commit(SendMessage(State, ByUser))
  /\ UNCHANGED << tenantId, apiBaseUrl, storageThrows, created >>

\* disconnectedCallback: this.abortController?.abort()
DisconnectedCallback ==
  /\ ~Running
  /\ abortController # Null
  /\ abortController[1] \notin aborted
  /\ aborted' = aborted \cup {abortController[1]}
  /\ UNCHANGED << tenantId, apiBaseUrl, storageThrows, sessionStorage, messages,
                  isStreaming, error, inputValue, abortController, tasks,
                  created, invocations, hist >>

\* the pending fetch or read of t rejects with AbortError
Aborts(t) ==
  /\ ~Running
  /\ t.pc \in {"createThread", "sendMessageStream", "read"}
  /\ t.signal \in aborted
  /\ Commit(Settle(Without(t), AbortError))
  /\ UNCHANGED << tenantId, apiBaseUrl, storageThrows, created >>

\* createThread settles and its 404 is handled like a 404 of the stream call
CreateThreadSettlesExpiring(t, resp) ==
  /\ ~Running
  /\ t.pc = "createThread"
  /\ t.signal \notin aborted
  /\ LET r == ApiClient_createThread(resp, ThreadName[created + 1])
         s0 == Without(t)
     IN  IF r.ok
         THEN /\ created < MaxThreads
              /\ created' = created + 1
              /\ LET s1 == Logged(s0, Event("createThread.ok", t, Some(r.value)))
                     s2 == IF r.value # ""
                           THEN [s1 EXCEPT !.sessionStorage =
                                   Storage_setThreadId(@, tenantId, r.value)]
                           ELSE s1
                 IN  Commit(Dispatch(s2, t, Some(r.value)))
         ELSE /\ created' = created
              /\ LET s1 == Logged(s0, Event("createThread.fail", t, Null))
                 IN  IF r.error.api /\ r.error.status = 404
                     THEN Commit(OnThreadExpired(s1, t))
                     ELSE Commit(Settle(s1, r.error))
  /\ UNCHANGED << tenantId, apiBaseUrl, storageThrows >>

\* createThread settles and Storage.setThreadId lets the exception of an
\* unavailable sessionStorage through
CreateThreadSettlesStorageThrows(t, resp) ==
  /\ ~Running
  /\ t.pc = "createThread"
  /\ t.signal \notin aborted
  /\ LET r == ApiClient_createThread(resp, ThreadName[created + 1])
         s0 == Without(t)
     IN  IF r.ok
         THEN /\ created < MaxThreads
              /\ created' = created + 1
              /\ LET s1 == Logged(s0, Event("createThread.ok", t, Some(r.value)))
                     s2 == [s1 EXCEPT !.sessionStorage =
                              Storage_setThreadId(@, tenantId, r.value)]
                 IN  IF storageThrows
                     THEN Commit(Settle(s1, PlatformError("SecurityError",
                                                          "The operation is insecure.")))
                     ELSE Commit(Dispatch(s2, t, Some(r.value)))
         ELSE /\ created' = created
              /\ Commit(Settle(Logged(s0, Event("createThread.fail", t, Null)),
                               r.error))
  /\ UNCHANGED << tenantId, apiBaseUrl, storageThrows >>

\* the await of ApiClient.createThread settles, the server having answered
\* resp; on success _sendMessage runs on to the await of sendMessageStream
CreateThreadSettles(t, resp) ==
  /\ ~Running
  /\ t.pc = "createThread"
  /\ t.signal \notin aborted
  /\ LET r == ApiClient_createThread(resp, ThreadName[created + 1])
         s0 == Without(t)
     IN  IF r.ok
         THEN /\ created < MaxThreads
              /\ created' = created + 1
              /\ LET s1 == Logged(s0, Event("createThread.ok", t, Some(r.value)))
                     s2 == IF r.value # ""
                           THEN [s1 EXCEPT !.sessionStorage =
                                   Storage_setThreadId(@, tenantId, r.value)]
                           ELSE s1
                 IN  Commit(Dispatch(s2, t, Some(r.value)))
         ELSE /\ created' = created
              /\ Commit(Settle(Logged(s0, Event("createThread.fail", t, Null)),
                               r.error))
  /\ UNCHANGED << tenantId, apiBaseUrl, storageThrows >>

\* the await of ApiClient.sendMessageStream settles, the server having
\* answered resp
SendMessageStreamSettles(t, resp) ==
  /\ ~Running
  /\ t.pc = "sendMessageStream"
  /\ t.signal \notin aborted
  /\ LET r == ApiClient_sendMessageStream(resp)
         s0 == Without(t)
     IN  IF r.ok
         THEN LET s1 == Logged(s0, Event("sendMessageStream.ok", t, t.threadId))
              IN  IF resp.hasBody
                  THEN Commit([s1 EXCEPT !.tasks = @ \cup {[t EXCEPT !.pc = "read"]}])
                  ELSE Commit(Complete(s1))
         ELSE IF r.error.api /\ r.error.status = 404
         THEN Commit(OnThreadExpired(
                [Logged(s0, Event("sendMessageStream.expired", t, t.threadId))
                   EXCEPT !.hist.expired = @ \cup {t.threadId}], t))
         ELSE Commit(Settle(Logged(s0, Event("sendMessageStream.fail", t, t.threadId)),
                            r.error))
  /\ UNCHANGED << tenantId, apiBaseUrl, storageThrows, created >>

\* reader.read() resolves with a chunk, which is decoded and split
ReadChunk(t, chunk) ==
  /\ ~Running
  /\ t.pc = "read"
  /\ t.signal \notin aborted
  /\ t.reads < MaxReads
  /\ tasks' = (tasks \ {t}) \cup
                {[t EXCEPT !.pc = "lines", !.lines = chunk, !.reads = @ + 1]}
  /\ UNCHANGED << tenantId, apiBaseUrl, storageThrows, sessionStorage, messages,
                  isStreaming, error, inputValue, abortController, aborted,
                  created, invocations, hist >>

\* the for loop without its try/catch: JSON.parse throws out of _processStream
ProcessLineUnguarded(t) ==
  /\ t.pc = "lines"
  /\ LET line == Head(t.lines)
         delta == DecodeLine(line)
         text == AppendDelta(t.assistantText, delta)
         rest == Tail(t.lines)
         next == [t EXCEPT !.assistantText = text, !.lines = rest,
                           !.pc = IF rest = <<>> THEN "read" ELSE "lines"]
     IN  IF line.prefix /\ ~line.parses
         THEN Commit(Settle(Without(t),
                            PlatformError("SyntaxError", "Unexpected end of JSON input")))
         ELSE Commit([State EXCEPT
                        !.tasks = (@ \ {t}) \cup {next},
                        !.messages = IF delta # <<>> /\ t.msgIndex \in DOMAIN @
                                     THEN [@ EXCEPT ![t.msgIndex].content = text]
                                     ELSE @,
                        !.hist.deltas = IF delta # <<>> THEN Append(@, delta) ELSE @])
  /\ UNCHANGED << tenantId, apiBaseUrl, storageThrows, created >>

\* a for loop that shows each delta as a message of its own
ProcessLineAppending(t) ==
  /\ t.pc = "lines"
  /\ LET delta == DecodeLine(Head(t.lines))
         text == AppendDelta(t.assistantText, delta)
         rest == Tail(t.lines)
         next == [t EXCEPT !.assistantText = text, !.lines = rest,
                           !.pc = IF rest = <<>> THEN "read" ELSE "lines"]
     IN  /\ tasks' = (tasks \ {t}) \cup {next}
         /\ messages' = IF delta # <<>>
                         THEN Append(messages, [role |-> "assistant", content |-> delta])
                         ELSE messages
         /\ hist' = IF delta # <<>> THEN [hist EXCEPT !.deltas = Append(@, delta)]
                    ELSE hist
  /\ UNCHANGED << tenantId, apiBaseUrl, storageThrows, sessionStorage,
                  isStreaming, error, inputValue, abortController, aborted,
                  created, invocations >>

\* one turn of the for loop over the lines of the chunk
ProcessLine(t) ==
  /\ t.pc = "lines"
  /\ LET delta == DecodeLine(Head(t.lines))
         text == AppendDelta(t.assistantText, delta)
         rest == Tail(t.lines)
     IN  IF delta # <<>>
         THEN /\ tasks' = (tasks \ {t}) \cup
                   {[t EXCEPT !.assistantText = text, !.lines = rest,
                              !.pc = IF rest = <<>> THEN "read" ELSE "lines"]}
              /\ messages' = IF t.msgIndex \in DOMAIN messages
                             THEN [messages EXCEPT ![t.msgIndex].content = text]
                             ELSE messages
              /\ hist' = [hist EXCEPT !.deltas = Append(@, delta)]
         ELSE /\ tasks' = (tasks \ {t}) \cup
                   {[t EXCEPT !.lines = rest,
                              !.pc = IF rest = <<>> THEN "read" ELSE "lines"]}
              /\ UNCHANGED << messages, hist >>
  /\ UNCHANGED << tenantId, apiBaseUrl, storageThrows, sessionStorage,
                  isStreaming, error, inputValue, abortController, aborted,
                  created, invocations >>

\* reader.read() resolves with done: _processStream and the try block end
ReadDone(t) ==
  /\ ~Running
  /\ t.pc = "read"
  /\ t.signal \notin aborted
  /\ Commit(Complete(Without(t)))
  /\ UNCHANGED << tenantId, apiBaseUrl, storageThrows, created >>

ReadErrorMessages == {"", "network error"}

\* reader.read() rejects because the connection broke
ReadFails(t, message) ==
  /\ ~Running
  /\ t.pc = "read"
  /\ t.signal \notin aborted
  /\ Commit(Settle(Without(t), PlatformError("TypeError", message)))
  /\ UNCHANGED << tenantId, apiBaseUrl, storageThrows, created >>

Next ==
  \/ \E v \in InputValues : HandleInput(v)
  \/ HandleKeyDown
  \/ DisconnectedCallback
  \/ \E t \in tasks : Aborts(t)
  \/ \E t \in tasks : \E resp \in CreateResponses : CreateThreadSettles(t, resp)
  \/ \E t \in tasks : \E resp \in SendResponses : SendMessageStreamSettles(t, resp)
  \/ \E t \in tasks : \E chunk \in StreamChunks : ReadChunk(t, chunk)
  \/ \E t \in tasks : ProcessLine(t)
  \/ \E t \in tasks : ReadDone(t)
  \/ \E t \in tasks : \E m \in ReadErrorMessages : ReadFails(t, m)

Spec == Init /\ [][Next]_vars

\* a pending createThread, sendMessageStream or read settles (resolves, fails
\* or is aborted), or the loop over the lines of a chunk takes its next turn
Progress ==
  \E t \in tasks :
    \/ Aborts(t)
    \/ \E resp \in CreateResponses : CreateThreadSettles(t, resp)
    \/ \E resp \in SendResponses : SendMessageStreamSettles(t, resp)
    \/ \E chunk \in StreamChunks : ReadChunk(t, chunk)
    \/ ProcessLine(t)
    \/ ReadDone(t)
    \/ \E m \in ReadErrorMessages : ReadFails(t, m)

\* the component when no pending call stays pending forever
FairSpec == Spec /\ WF_vars(Progress)

\* ------------------------------------------- two instances, one sessionStorage
\* two radikari-chat elements of one page with the same tenant-id: of each
\* _sendMessage the thread resolution, the two awaits and the expiry recovery,
\* which are all that reads or writes the sessionStorage they share. An
\* instance with a suspended invocation is streaming and rejects a submit;
\* hist.log records each submit and each clearThreadId with the id read or
\* reported expired and the value the store held just before.
Instances == {1, 2}

PeerTask(i, pc, threadId) ==
  [ id |-> i, root |-> i, attempt |-> 1, text |-> <<"h", "i">>,
    threadId |-> threadId, msgIndex |-> 0, signal |-> i, pc |-> pc,
    assistantText |-> <<>>, lines |-> <<>>, reads |-> 0 ]

PeerEvent(op, i, threadId, held) ==
  [op |-> op, instance |-> i, thread |-> threadId, held |-> held]

SubmitsOf(i) ==
  LET Mine(e) == e.op = "submit" /\ e.instance = i
  IN  Len(SelectSeq(hist.log, Mine))

InitPeers ==
  /\ tenantId = "acme"
  /\ apiBaseUrl = "http://localhost:3010"
  /\ storageThrows = FALSE
  /\ sessionStorage \in [StorageKeys -> {Null, Some(OldThread), Some(Sentinel)}]
  /\ sessionStorage[getThreadKey("beta")] = Null
  /\ messages = <<>>
  /\ isStreaming = FALSE
  /\ error = Null
  /\ inputValue = <<>>
  /\ abortController = Null
  /\ aborted = {}
  /\ tasks = {}
  /\ created = 0
  /\ invocations = 0
  /\ hist = NoHistory

\* instance i accepts a submit: Storage.getThreadId, then the await of
\* createThread or of sendMessageStream
PeerSubmit(i) ==
  /\ \A t \in tasks : t.id # i
  /\ SubmitsOf(i) < MaxSends
  /\ LET threadId == Storage_getThreadId(sessionStorage, tenantId)
     IN  /\ tasks' = tasks \cup
               {PeerTask(i, IF NeedsThread(threadId) THEN "createThread"
                            ELSE "sendMessageStream", threadId)}
         /\ hist' = [hist EXCEPT !.log =
                       Append(@, PeerEvent("submit", i, threadId, threadId))]
  /\ UNCHANGED << tenantId, apiBaseUrl, storageThrows, sessionStorage, messages,
                  isStreaming, error, inputValue, abortController, aborted,
                  created, invocations >>

\* the createThread of instance i settles: on success Storage.setThreadId and
\* the call of sendMessageStream, otherwise the invocation ends
PeerCreateThreadSettles(t, resp) ==
  /\ t.pc = "createThread"
  /\ LET r == ApiClient_createThread(resp, ThreadName[created + 1])
     IN  IF r.ok
         THEN /\ created < MaxThreads
              /\ created' = created + 1
              /\ sessionStorage' = Storage_setThreadId(sessionStorage, tenantId, r.value)
              /\ tasks' = (tasks \ {t}) \cup
                            {PeerTask(t.id, "sendMessageStream", Some(r.value))}
         ELSE /\ tasks' = tasks \ {t}
              /\ UNCHANGED << created, sessionStorage >>
  /\ UNCHANGED << tenantId, apiBaseUrl, storageThrows, messages, isStreaming,
                  error, inputValue, abortController, aborted, invocations,
                  hist >>

\* the sendMessageStream of instance i settles: on 404 Storage.clearThreadId
\* and the recovery call, which returns at the validation; in every case the
\* invocation ends without another access to the store
PeerSendMessageStreamSettles(t, resp) ==
  /\ t.pc = "sendMessageStream"
  /\ LET r == ApiClient_sendMessageStream(resp)
     IN  IF ~r.ok /\ r.error.api /\ r.error.status = 404
         THEN /\ sessionStorage' = Storage_clearThreadId(sessionStorage, tenantId)
              /\ hist' = [hist EXCEPT !.log =
                    Append(@, PeerEvent("clear", t.id, t.threadId,
                                        Storage_getThreadId(sessionStorage, tenantId)))]
         ELSE UNCHANGED << sessionStorage, hist >>
  /\ tasks' = tasks \ {t}
  /\ UNCHANGED << tenantId, apiBaseUrl, storageThrows, messages, isStreaming,
                  error, inputValue, abortController, aborted, created,
                  invocations >>

NextPeers ==
  \/ \E i \in Instances : PeerSubmit(i)
  \/ \E t \in tasks : \E resp \in CreateResponses : PeerCreateThreadSettles(t, resp)
  \/ \E t \in tasks : \E resp \in SendResponses : PeerSendMessageStreamSettles(t, resp)

SpecPeers == InitPeers /\ [][NextPeers]_vars

\* ------------------------------------------------------------ the ApiClient
\* ApiClient on its own: one call of createThread or sendMessageStream whose
\* fetch settles with any response; hist.log records the call, the response
\* and what the call returned or threw to its caller. Body "nothreadid"
\* stands for a content object whose threadId is missing or empty.
ProbeStatuses == {200, 204, 299, 300, 400, 404, 500}
ProbeResponses ==
  { [net |-> FALSE, status |-> 0, body |-> "notjson", text |-> "",
     hasBody |-> FALSE] } \cup
  { [net |-> TRUE, status |-> st, body |-> b, text |-> tx, hasBody |-> hb] :
      st \in ProbeStatuses, b \in CreateBodies, tx \in {"", "upstream down"},
      hb \in BOOLEAN }

ApiCall(op, resp, result) == [op |-> op, resp |-> resp, result |-> result]

CallCreateThread(resp) ==
  /\ Len(hist.log) < MaxCalls
  /\ hist' = [hist EXCEPT !.log =
       Append(@, ApiCall("createThread", resp,
                         ApiClient_createThread(resp, ThreadName[1])))]
  /\ UNCHANGED << tenantId, apiBaseUrl, storageThrows, sessionStorage, messages,
                  isStreaming, error, inputValue, abortController, aborted,
                  tasks, created, invocations >>

CallSendMessageStream(resp) ==
  /\ Len(hist.log) < MaxCalls
  /\ hist' = [hist EXCEPT !.log =
       Append(@, ApiCall("sendMessageStream", resp,
                         ApiClient_sendMessageStream(resp)))]
  /\ UNCHANGED << tenantId, apiBaseUrl, storageThrows, sessionStorage, messages,
                  isStreaming, error, inputValue, abortController, aborted,
                  tasks, created, invocations >>

InitApi ==
  /\ tenantId = "acme"
  /\ apiBaseUrl = "http://localhost:3010"
  /\ storageThrows = FALSE
  /\ sessionStorage = [k \in StorageKeys |-> Null]
  /\ messages = <<>>
  /\ isStreaming = FALSE
  /\ error = Null
  /\ inputValue = <<>>
  /\ abortController = Null
  /\ aborted = {}
  /\ tasks = {}
  /\ created = 0
  /\ invocations = 0
  /\ hist = NoHistory

NextApi ==
  \/ \E resp \in ProbeResponses : CallCreateThread(resp)
  \/ \E resp \in ProbeResponses : CallSendMessageStream(resp)

SpecApi == InitApi /\ [][NextApi]_vars

\* ------------------------------------------------------ the release script
\* bumpVersion of scripts/release.js on its own. A version is the string of
\* package.json, a sequence of characters; a JavaScript number is a record
\* that is a natural number or NaN.
MaxPart == 10

Digits == <<"0", "1", "2", "3", "4", "5", "6", "7", "8", "9">>

JsNumber(n) == [nan |-> FALSE, n |-> n]
NaN == [nan |-> TRUE, n |-> 0]

RECURSIVE Split(_)
\* current.split(".")
Split(str) ==
  IF \A i \in DOMAIN str : str[i] # "."
  THEN << str >>
  ELSE LET i == CHOOSE k \in DOMAIN str :
                  str[k] = "." /\ \A j \in 1..(k - 1) : str[j] # "."
       IN  << SubSeq(str, 1, i - 1) >> \o Split(SubSeq(str, i + 1, Len(str)))

RECURSIVE Decimal(_)
Decimal(str) ==
  IF str = <<>> THEN 0
  ELSE Decimal(SubSeq(str, 1, Len(str) - 1)) * 10
         + (CHOOSE d \in 0..9 : Digits[d + 1] = str[Len(str)])

\* Number(part) for the strings a version holds: decimal digits give their
\* value, the empty string 0, anything else NaN
ToNumber(str) ==
  IF \A i \in DOMAIN str : \E d \in 0..9 : Digits[d + 1] = str[i]
  THEN JsNumber(Decimal(str))
  ELSE NaN

\* x + 1
PlusOne(x) == IF x.nan THEN NaN ELSE JsNumber(x.n + 1)

RECURSIVE ToString(_)
ToString(n) ==
  IF n < 10 THEN << Digits[n + 1] >>
  ELSE ToString(n \div 10) \o << Digits[(n % 10) + 1] >>

\* ${x} in a template literal
Template(x) == IF x.nan THEN <<"N", "a", "N">> ELSE ToString(x.n)

\* `${a}.${b}.${c}`
Dotted(a, b, c) == Template(a) \o <<".">> \o Template(b) \o <<".">> \o Template(c)

\* a minor bump that keeps the patch number
bumpVersionKeepingPatch(current, type) ==
  LET parts == Split(current)
      major == ToNumber(parts[1])
      minor == ToNumber(parts[2])
      patch == ToNumber(parts[3])
  IN  CASE type = "patch" -> Dotted(major, minor, PlusOne(patch))
        [] type = "minor" -> Dotted(major, PlusOne(minor), patch)
        [] type = "major" -> Dotted(PlusOne(major), JsNumber(0), JsNumber(0))
        [] OTHER -> current

\* function bumpVersion(current, type)
bumpVersion(current, type) ==
  LET parts == Split(current)
      major == ToNumber(parts[1])
      minor == ToNumber(parts[2])
      patch == ToNumber(parts[3])
  IN  CASE type = "patch" -> Dotted(major, minor, PlusOne(patch))
        [] type = "minor" -> Dotted(major, PlusOne(minor), JsNumber(0))
        [] type = "major" -> Dotted(PlusOne(major), JsNumber(0), JsNumber(0))
        [] OTHER -> current

\* the types getVersionType lets through
VersionTypes == {"patch", "minor", "major"}

\* the versions package.json may hold: major.minor.patch, and one with a
\* pre-release tag
PreRelease == <<"1", ".", "2", ".", "3", "-", "r", "c">>
Versions ==
  { ToString(a) \o <<".">> \o ToString(b) \o <<".">> \o ToString(c) :
      a \in 0..MaxPart, b \in 0..MaxPart, c \in 0..MaxPart } \cup {PreRelease}

BumpCall(current, type, result) ==
  [op |-> "bumpVersion", current |-> current, type |-> type, result |-> result]

InitRelease ==
  /\ tenantId = "acme"
  /\ apiBaseUrl = "http://localhost:3010"
  /\ storageThrows = FALSE
  /\ sessionStorage = [k \in StorageKeys |-> Null]
  /\ messages = <<>>
  /\ isStreaming = FALSE
  /\ error = Null
  /\ inputValue = <<>>
  /\ abortController = Null
  /\ aborted = {}
  /\ tasks = {}
  /\ created = 0
  /\ invocations = 0
  /\ hist = NoHistory

\* main: bumpVersion(currentVersion, versionType), once in a run of the
\* script; hist.log holds the call
Release(current, type) ==
  /\ hist.log = <<>>
  /\ hist' = [hist EXCEPT !.log = << BumpCall(current, type, bumpVersion(current, type)) >>]
  /\ UNCHANGED << tenantId, apiBaseUrl, storageThrows, sessionStorage, messages,
                  isStreaming, error, inputValue, abortController, aborted,
                  tasks, created, invocations >>

NextRelease == \E current \in Versions : \E type \in VersionTypes : Release(current, type)

SpecRelease == InitRelease /\ [][NextRelease]_vars

\* ------------------------------------------------------- the Storage object
\* Storage on its own: any caller in the tab calls getThreadId, setThreadId
\* and clearThreadId for any tenant; hist.log records the calls and what
\* getThreadId returned
StorageCall(op, tenant, value) == [op |-> op, tenant |-> tenant, value |-> value]

StoredValues == {Null, Some(OldThread), Some(Sentinel)}
NewThreadIds == {ThreadName[1], ThreadName[2]}

InitStorage ==
  /\ tenantId = "acme"
  /\ apiBaseUrl = "http://localhost:3010"
  /\ storageThrows \in BOOLEAN
  /\ sessionStorage \in [StorageKeys -> StoredValues]
  /\ storageThrows => \A k \in StorageKeys : sessionStorage[k] = Null
  /\ messages = <<>>
  /\ isStreaming = FALSE
  /\ error = Null
  /\ inputValue = <<>>
  /\ abortController = Null
  /\ aborted = {}
  /\ tasks = {}
  /\ created = 0
  /\ invocations = 0
  /\ hist = NoHistory

GetThreadId(tenant) ==
  /\ Len(hist.log) < MaxOps
  /\ hist' = [hist EXCEPT !.log =
       Append(@, StorageCall("get", tenant,
                             Storage_getThreadId(sessionStorage, tenant)))]
  /\ UNCHANGED << tenantId, apiBaseUrl, storageThrows, sessionStorage, messages,
                  isStreaming, error, inputValue, abortController, aborted,
                  tasks, created, invocations >>

SetThreadId(tenant, threadId) ==
  /\ Len(hist.log) < MaxOps
  /\ sessionStorage' = Storage_setThreadId(sessionStorage, tenant, threadId)
  /\ hist' = [hist EXCEPT !.log =
       Append(@, StorageCall("set", tenant, Some(threadId)))]
  /\ UNCHANGED << tenantId, apiBaseUrl, storageThrows, messages, isStreaming,
                  error, inputValue, abortController, aborted, tasks, created,
                  invocations >>

ClearThreadId(tenant) ==
  /\ Len(hist.log) < MaxOps
  /\ sessionStorage' = Storage_clearThreadId(sessionStorage, tenant)
  /\ hist' = [hist EXCEPT !.log = Append(@, StorageCall("clear", tenant, Null))]
  /\ UNCHANGED << tenantId, apiBaseUrl, storageThrows, messages, isStreaming,
                  error, inputValue, abortController, aborted, tasks, created,
                  invocations >>

NextStorage ==
  \/ \E tenant \in Tenants : GetThreadId(tenant)
  \/ \E tenant \in Tenants : \E id \in NewThreadIds : SetThreadId(tenant, id)
  \/ \E tenant \in Tenants : ClearThreadId(tenant)

SpecStorage == InitStorage /\ [][NextStorage]_vars

\* ------------------------------------------------------ the stream decoder
\* _processStream on its own: one send whose sendMessageStream has resolved
\* with a body, fed chunks that may cut a line in two. hist.wire records the
\* lines the server has sent, a cut line being put together again.
WireChunks ==
  { << DataLine("text-delta", Hel), CommentLine >>,
    << DataLine("text-delta", Hel), HeadOf(Lo) >>,
    << TailOf(Lo), DataLine("finish", <<>>) >>,
    << BadJsonLine, DataLine("text-delta", Lo) >>,
    << DataLine("reasoning-delta", <<"x">>), DataLine("text-delta", <<>>) >> }

\* the last line sent so far is the first part of a cut line
Dangling(wire) == wire # <<>> /\ wire[Len(wire)].cut = "head"

\* the server can send chunk after wire: a second part follows a first part
Fits(wire, chunk) ==
  IF Dangling(wire)
  THEN chunk[1].cut = "tail" /\ chunk[1].whole = wire[Len(wire)].whole
  ELSE chunk[1].cut # "tail"

\* the lines sent once chunk has followed wire
Join(wire, chunk) ==
  IF Dangling(wire)
  THEN SubSeq(wire, 1, Len(wire) - 1)
         \o << DataLine("text-delta", chunk[1].whole) >> \o Tail(chunk)
  ELSE wire \o chunk

StreamingTask ==
  [ id |-> 1, root |-> 1, attempt |-> 1, text |-> <<"h", "i">>,
    threadId |-> Some(OldThread), msgIndex |-> 2, signal |-> 1, pc |-> "read",
    assistantText |-> <<>>, lines |-> <<>>, reads |-> 0 ]

\* the user has submitted " hi " with thread t0 stored, and the await of
\* sendMessageStream has resolved with a response that has a body
InitStream ==
  /\ tenantId = "acme"
  /\ apiBaseUrl = "http://localhost:3010"
  /\ storageThrows = FALSE
  /\ sessionStorage = [k \in StorageKeys |->
                         IF k = getThreadKey("acme") THEN Some(OldThread) ELSE Null]
  /\ messages = << UserMsg(<<"h", "i">>), AssistantMsg >>
  /\ isStreaming = TRUE
  /\ error = Null
  /\ inputValue = <<>>
  /\ abortController = Some(1)
  /\ aborted = {}
  /\ tasks = {StreamingTask}
  /\ created = 0
  /\ invocations = 1
  /\ hist = [NoHistory EXCEPT
               !.sends = 1,
               !.log = << Event("sendMessageStream", StreamingTask, Some(OldThread)),
                          Event("sendMessageStream.ok", StreamingTask, Some(OldThread)) >>,
               !.rawText = <<" ", "h", "i", " ">>,
               !.stored = Some(OldThread),
               !.lastSubmit = "accepted",
               !.outcome = "pending"]

\* reader.read() resolves with the next chunk the server sent
ReadWire(t, chunk) ==
  /\ ~Running
  /\ t.pc = "read"
  /\ t.signal \notin aborted
  /\ t.reads < MaxChunks
  /\ Fits(hist.wire, chunk)
  /\ tasks' = (tasks \ {t}) \cup
                {[t EXCEPT !.pc = "lines", !.lines = chunk, !.reads = @ + 1]}
  /\ hist' = [hist EXCEPT !.wire = Join(@, chunk)]
  /\ UNCHANGED << tenantId, apiBaseUrl, storageThrows, sessionStorage, messages,
                  isStreaming, error, inputValue, abortController, aborted,
                  created, invocations >>

NextStream ==
  \/ \E t \in tasks : \E chunk \in WireChunks : ReadWire(t, chunk)
  \/ \E t \in tasks : ProcessLine(t)
  \/ \E t \in tasks : ReadDone(t)
  \/ \E t \in tasks : \E m \in ReadErrorMessages : ReadFails(t, m)

SpecStream == InitStream /\ [][NextStream]_vars

\* ------------------------------------------------------------- properties
\* the controller is Idle: no submission in flight
Idle == ~isStreaming /\ tasks = {}

\* the events of the current user-initiated send
SendLog == LET Mine(e) == e.root = hist.sends IN SelectSeq(hist.log, Mine)

EventsOf(log, ops) == LET Is(e) == e.op \in ops IN SelectSeq(log, Is)
CountOf(log, ops) == Len(EventsOf(log, ops))

StreamResults ==
  EventsOf(SendLog, {"sendMessageStream.ok", "sendMessageStream.expired",
                     "sendMessageStream.fail"})

\* the first sendMessageStream of the current send failed with ThreadExpired
FirstExpired ==
  /\ StreamResults # <<>>
  /\ StreamResults[1].op = "sendMessageStream.expired"

\* the events of the current send after the first ThreadExpired
AfterFirstExpiry ==
  LET i == CHOOSE k \in 1..Len(SendLog) :
             /\ SendLog[k].op = "sendMessageStream.expired"
             /\ \A j \in 1..(k - 1) : SendLog[j].op # "sendMessageStream.expired"
  IN  SubSeq(SendLog, i + 1, Len(SendLog))

\* the messages appended since the current send was accepted
SinceSubmit == SubSeq(messages, Len(hist.before) + 1, Len(messages))

AssistantsSinceSubmit ==
  LET IsAssistant(m) == m.role = "assistant" IN Len(SelectSeq(SinceSubmit, IsAssistant))

AllSpaces(text) == \A i \in DOMAIN text : IsSpace(text[i])

\* c is raw without its leading and trailing white space
IsTrimOf(c, raw) ==
  /\ c # <<>>
  /\ ~IsSpace(c[1])
  /\ ~IsSpace(c[Len(c)])
  /\ \E i \in 0..Len(raw) : \E j \in i..Len(raw) :
       /\ SubSeq(raw, i + 1, j) = c
       /\ \A k \in (1..i) \cup ((j + 1)..Len(raw)) : IsSpace(raw[k])

RECURSIVE Flat(_)
Flat(ds) == IF ds = <<>> THEN <<>> ELSE Head(ds) \o Flat(Tail(ds))

\* C1: when the first sendMessageStream of a send failed with ThreadExpired
\* and the send is over, exactly one further createThread was issued after
\* the expiry and, if it succeeded, exactly one further sendMessageStream
\* carrying the same text.
C1_OneRetryAfterExpiry ==
  (Idle /\ FirstExpired) =>
     /\ CountOf(AfterFirstExpiry, {"createThread"}) = 1
     /\ CountOf(AfterFirstExpiry, {"sendMessageStream"}) =
          CountOf(AfterFirstExpiry, {"createThread.ok"})
     /\ \A i \in DOMAIN AfterFirstExpiry :
          AfterFirstExpiry[i].text = StreamResults[1].text

\* C2: an id whose send was reported expired is not in the Session Store
\* from the end of that step on (so before any further createThread), and
\* when the controller is Idle after a send whose first attempt expired, the
\* list holds no assistant message of the attempt that expired: at most one
\* assistant message per sendMessageStream after the first.
C2_ExpiredThreadCleared ==
  /\ \A id \in hist.expired : Storage_getThreadId(sessionStorage, "acme") # id
  /\ (Idle /\ FirstExpired) =>
       /\ AssistantsSinceSubmit + 1 <= CountOf(SendLog, {"sendMessageStream"})
       /\ (CountOf(SendLog, {"sendMessageStream"}) = 1 =>
             /\ Len(messages) = Len(hist.before) + 1
             /\ SubSeq(messages, 1, Len(hist.before)) = hist.before
             /\ messages[Len(messages)].role = "user")

C2_Witness ==
  /\ Idle
  /\ FirstExpired
  /\ hist.stored = Some(OldThread)
  /\ Some(OldThread) \in hist.expired
  /\ sessionStorage[getThreadKey("acme")] = Null
  /\ hist.before # <<>>

\* C3: when every sendMessageStream of a send reported ThreadExpired and the
\* send is over, error is set, it was set once, and the list is the list
\* before the submit plus the user message.
C3_ExpiryEndsInError ==
  (Idle /\ FirstExpired
        /\ \A i \in DOMAIN StreamResults :
             StreamResults[i].op = "sendMessageStream.expired") =>
     /\ error # Null
     /\ hist.errorSets = 1
     /\ Len(messages) = Len(hist.before) + 1
     /\ messages[Len(messages)].role = "user"

\* C4: one user-initiated send re-invokes the submit flow at most once and
\* issues at most two sendMessageStream calls; no invocation is the retry of
\* a retry.
C4_BoundedRetry ==
  /\ hist.retries <= 1
  /\ CountOf(SendLog, {"sendMessageStream"}) <= 2
  /\ \A t \in tasks : t.attempt <= 2

C4_Witness ==
  /\ Idle
  /\ FirstExpired
  /\ hist.outcome = "expired"
  /\ CountOf(SendLog, {"sendMessageStream"}) = 1

\* C5: in every step at most one invocation is left in flight, an
\* invocation in flight has isStreaming set, and a submit of the user while
\* isStreaming starts no call and no reader.
C5_SingleFlight ==
  [][ /\ Cardinality(tasks') <= 1
      /\ (tasks' # {} => isStreaming')
      /\ (isStreaming /\ HandleKeyDown) =>
            (tasks' = tasks /\ hist'.log = hist.log /\ invocations' = invocations)
    ]_vars

C5_Witness ==
  /\ isStreaming
  /\ Cardinality(tasks) = 1
  /\ ~AllSpaces(inputValue)
  /\ hist.lastSubmit = "rejected: in flight"

\* C6: when a send succeeded (thread resolved, send accepted, stream read to
\* its end), the list is the list before the submit, then a user message
\* holding the trimmed text, then one assistant message.
C6_GrowsByTwo ==
  (Idle /\ hist.outcome = "ok") =>
     /\ Len(messages) = Len(hist.before) + 2
     /\ SubSeq(messages, 1, Len(hist.before)) = hist.before
     /\ messages[Len(hist.before) + 1].role = "user"
     /\ IsTrimOf(messages[Len(hist.before) + 1].content, hist.rawText)
     /\ messages[Len(hist.before) + 2].role = "assistant"

C6_Witness ==
  /\ Idle
  /\ hist.outcome = "ok"
  /\ hist.before # <<>>
  /\ hist.rawText = <<" ", "h", "i", " ">>
  /\ messages[Len(messages)].content # <<>>

\* C7: a submit of the user whose text is empty or white space, or while
\* isStreaming, or with the tenant id or the base URL unset, changes neither
\* the message list nor the store.
C7_RejectedSubmitFrame ==
  [][ (HandleKeyDown /\ (\/ AllSpaces(inputValue)
                         \/ isStreaming
                         \/ tenantId = ""
                         \/ apiBaseUrl = "")) =>
        (messages' = messages /\ sessionStorage' = sessionStorage)
    ]_vars

C7_Witness ==
  /\ hist.lastSubmit = "rejected: empty"
  /\ inputValue = <<" ">>
  /\ messages # <<>>
  /\ sessionStorage[getThreadKey("acme")] # Null

C9_StoredThreadReused ==
  (/\ hist.sends > 0
   /\ hist.stored # Null
   /\ hist.stored # Some(Sentinel)
   /\ CountOf(SendLog, {"sendMessageStream.expired"}) = 0) =>
     /\ CountOf(SendLog, {"createThread"}) = 0
     /\ SendLog # <<>>
     /\ \A i \in DOMAIN SendLog :
          /\ SendLog[i].op \in {"sendMessageStream", "sendMessageStream.ok",
                                "sendMessageStream.fail"}
          /\ SendLog[i].thread = hist.stored

C9_Witness ==
  /\ Idle
  /\ hist.stored = Some(ThreadName[1])
  /\ hist.outcome = "ok"
  /\ CountOf(SendLog, {"sendMessageStream"}) = 1

\* C10: while a stream is read, after each delta the content of the
\* assistant placeholder is the concatenation, in order, of the deltas
\* decoded so far, and after the end of the stream that of all its deltas.
C10_DeltasInOrder ==
  /\ \A t \in tasks :
       t.pc \in {"read", "lines"} =>
         /\ t.msgIndex \in DOMAIN messages
         /\ messages[t.msgIndex].role = "assistant"
         /\ messages[t.msgIndex].content = Flat(hist.deltas)
  /\ (Idle /\ hist.outcome = "ok") =>
       messages[Len(messages)].content = Flat(hist.deltas)

C10_Witness ==
  /\ Idle
  /\ hist.outcome = "ok"
  /\ hist.deltas = << Hel, Lo >>
  /\ messages[Len(messages)].content = << "H", "e", "l", "l", "o" >>

\* ------------------------------------------------------ the stream decoder
\* the line is a complete "data: " line with a text-delta that is not empty
Carries(line) ==
  line.prefix /\ line.parses /\ line.type = "text-delta" /\ line.delta # <<>>

\* the text the lines carry, in order
RECURSIVE TextOf(_)
TextOf(lines) ==
  IF lines = <<>> THEN <<>>
  ELSE (IF Carries(Head(lines)) THEN Head(lines).delta ELSE <<>>)
         \o TextOf(Tail(lines))

\* the assistant message of the current send
Assistant == messages[Len(messages)]

\* C11: a data line cut in two by a chunk boundary is carried over and decoded
\* as one line: when the stream has ended after complete lines only, the
\* assistant content is the text of the lines sent, however they were cut
C11_CutLineCarriedOver ==
  (Idle /\ hist.outcome = "ok" /\ ~Dangling(hist.wire))
    => Assistant.content = TextOf(hist.wire)

\* a "data: " line that failed to parse was among the lines handled before
\* the lines the invocation t still has to handle
SkippedBefore(t) ==
  \E i \in 1..(Len(hist.wire) - Len(t.lines)) :
    hist.wire[i].prefix /\ ~hist.wire[i].parses

\* C12: a "data: " line whose payload fails to parse is skipped: the step that
\* handles it changes neither error, isStreaming nor messages and the loop goes
\* on with the next line; a well-formed delta line after a skipped line is
\* still appended to the assistant content
C12_BadJsonSkipped ==
  [][\A t \in tasks : t.pc = "lines" =>
       LET line == Head(t.lines) IN
       /\ (line.prefix /\ ~line.parses) =>
            /\ error' = error
            /\ isStreaming' = isStreaming
            /\ messages' = messages
            /\ \E u \in tasks' : /\ u.id = t.id
                                 /\ u.lines = Tail(t.lines)
                                 /\ u.pc \in {"lines", "read"}
       /\ (Carries(line) /\ SkippedBefore(t)) =>
            messages'[t.msgIndex].content
              = messages[t.msgIndex].content \o line.delta]_vars

C12_Witness ==
  /\ isStreaming
  /\ error = Null
  /\ hist.wire = << BadJsonLine, DataLine("text-delta", Lo) >>
  /\ \E t \in tasks : t.pc = "read" /\ t.reads = 1
  /\ Assistant.content = Lo

\* C13: the decoder emits a delta for a line exactly when the line starts with
\* "data: ", its payload parses, its type is text-delta and its delta is not
\* empty: the step that handles such a line appends the delta to the assistant
\* content, the step that handles any other line changes neither messages nor
\* error and emits nothing
C13_DeltaOnlyForTextDelta ==
  [][\A t \in tasks : t.pc = "lines" =>
       LET line == Head(t.lines) IN
       IF Carries(line)
       THEN /\ messages'[t.msgIndex].content
                 = messages[t.msgIndex].content \o line.delta
            /\ hist'.deltas = Append(hist.deltas, line.delta)
       ELSE /\ messages' = messages
            /\ error' = error
            /\ hist'.deltas = hist.deltas]_vars

C13_Witness ==
  /\ hist.wire = << DataLine("reasoning-delta", <<"x">>),
                    DataLine("text-delta", <<>>),
                    DataLine("text-delta", Hel), CommentLine >>
  /\ \E t \in tasks : t.pc = "read" /\ t.reads = 2
  /\ hist.deltas = << Hel >>
  /\ Assistant.content = Hel
  /\ error = Null

\* --------------------------------------------------- cancellation, failure
\* the stream of the current send was opened: sendMessageStream resolved
StreamOpened == CountOf(SendLog, {"sendMessageStream.ok"}) > 0

\* C14: when a send is aborted after its stream has delivered k >= 0 deltas,
\* the controller is Idle with the assistant message still last in the list,
\* its content the concatenation of those k deltas, and error unset
C14_CancelKeepsPartial ==
  (Idle /\ hist.outcome = "aborted" /\ StreamOpened) =>
    /\ Assistant.role = "assistant"
    /\ Assistant.content = Flat(hist.deltas)
    /\ error = Null
    /\ abortController = Null

C14_Witness ==
  /\ Idle
  /\ hist.outcome = "aborted"
  /\ StreamOpened
  /\ hist.deltas = << Hel >>
  /\ Assistant = [role |-> "assistant", content |-> Hel]
  /\ error = Null

\* C15: an abort that takes effect at a suspension point (the await of
\* createThread, of sendMessageStream or of a read) ends the invocation with
\* error unchanged and the controller Idle: Cancelled is never made an error
C15_AbortAbsorbed ==
  [][\A t \in tasks :
       (t.signal \in aborted /\ ~(\E u \in tasks' : u.id = t.id)) =>
         /\ error' = error
         /\ hist'.errorSets = hist.errorSets
         /\ ~isStreaming'
         /\ tasks' = {}
         /\ abortController' = Null]_vars

C15_Witness ==
  /\ Idle
  /\ hist.outcome = "aborted"
  /\ EventsOf(SendLog, {"createThread"}) # <<>>
  /\ CountOf(SendLog, {"createThread.ok", "createThread.fail"}) = 0
  /\ error = Null
  /\ hist.errorSets = 0

\* the current send has ended in a failure that is neither an abort nor an
\* expiry that was recovered from
Failed == hist.sends > 0 /\ hist.outcome \in {"error", "expired"}

\* C16: a submission that fails otherwise than by Cancelled or by a recovered
\* ThreadExpired leaves the controller Idle with error set, to a string that
\* is not empty, exactly once
C16_FailureSetsErrorOnce ==
  (Idle /\ Failed) =>
    /\ error # Null
    /\ error[1] # ""
    /\ hist.errorSets = 1

\* C17: once a submit is accepted and its first network call is issued, the
\* user message stands in the list right after the messages that were there
\* before, the controller has left Idle and the previous error is cleared;
\* error stays null as long as that submission has not failed
C17_AcceptedSubmitFrame ==
  /\ (hist.sends > 0 /\ hist.outcome = "pending") =>
       /\ SendLog # <<>>
       /\ isStreaming
       /\ Len(messages) > Len(hist.before)
       /\ SubSeq(messages, 1, Len(hist.before)) = hist.before
       /\ messages[Len(hist.before) + 1].role = "user"
       /\ IsTrimOf(messages[Len(hist.before) + 1].content, hist.rawText)
       /\ (Len(SendLog) = 1 /\ SendLog[1].op = "createThread") =>
            Len(messages) = Len(hist.before) + 1
  /\ (hist.sends > 0 /\ hist.outcome \in {"pending", "ok", "aborted"}) =>
       error = Null

C17_Witness ==
  /\ hist.sends = 2
  /\ hist.outcome = "pending"
  /\ isStreaming
  /\ error = Null
  /\ Len(SendLog) = 1
  /\ SendLog[1].op = "createThread"
  /\ hist.before = << UserMsg(<<"h", "i">>) >>
  /\ messages = << UserMsg(<<"h", "i">>), UserMsg(<<"h", "i">>) >>

\* C18: when createThread fails (non-2xx status or malformed response) the
\* turn ends Idle with error set; the list has gained the user message and no
\* assistant placeholder, no sendMessageStream call was issued and the
\* sessionStorage holds what it held when the submit was accepted
C18_CreateThreadFailure ==
  (Idle /\ hist.sends > 0 /\ CountOf(SendLog, {"createThread.fail"}) > 0) =>
    /\ error # Null
    /\ hist.outcome = "error"
    /\ Len(messages) = Len(hist.before) + 1
    /\ messages[Len(messages)].role = "user"
    /\ CountOf(SendLog, {"sendMessageStream"}) = 0
    /\ sessionStorage[getThreadKey("acme")] = hist.stored
    /\ sessionStorage[getThreadKey("beta")] = Null

C18_Witness ==
  /\ Idle
  /\ Len(SendLog) = 2
  /\ SendLog[2].op = "createThread.fail"
  /\ error = Some("No threadId in response")
  /\ messages = << UserMsg(<<"h", "i">>) >>
  /\ sessionStorage[getThreadKey("acme")] = Some(Sentinel)

UsersSinceSubmit ==
  LET IsUser(m) == m.role = "user" IN SelectSeq(SinceSubmit, IsUser)

\* C20: one user-initiated send appends its user message exactly once, also
\* when the expiry recovery calls the submit flow again: the list holds one
\* user message of that send, during the send and when the controller is Idle
C20_UserMessageOnce ==
  hist.sends > 0 =>
    /\ Len(UsersSinceSubmit) = 1
    /\ SinceSubmit[1].role = "user"
    /\ IsTrimOf(SinceSubmit[1].content, hist.rawText)

C20_Witness ==
  /\ Idle
  /\ FirstExpired
  /\ hist.outcome = "expired"
  /\ SinceSubmit = << UserMsg(<<"h", "i">>) >>
  /\ inputValue = <<"h", "i">>

\* ------------------------------------------------------- the message list
\* C21: the index of the assistant placeholder, once recorded for a turn, is
\* that of an assistant message and stays the same until the invocation ends;
\* the step that applies a delta changes the content of the message at that
\* index only: the list keeps its length, every other message, the role of
\* that message and the sessionStorage are unchanged
C21_DeltaFrame ==
  [][\A t \in tasks : t.pc \in {"sendMessageStream", "read", "lines"} =>
       /\ t.msgIndex \in DOMAIN messages
       /\ messages[t.msgIndex].role = "assistant"
       /\ \A u \in tasks' : u.id = t.id => u.msgIndex = t.msgIndex
       /\ t.pc = "lines" =>
            /\ Len(messages') = Len(messages)
            /\ \A i \in DOMAIN messages :
                 i # t.msgIndex => messages'[i] = messages[i]
            /\ messages'[t.msgIndex].role = "assistant"
            /\ sessionStorage' = sessionStorage]_vars

C21_Witness ==
  /\ hist.sends = 2
  /\ Len(messages) = 4
  /\ messages[2] = [role |-> "assistant", content |-> Hel \o Lo]
  /\ messages[4] = [role |-> "assistant", content |-> Hel]
  /\ \E t \in tasks : t.pc = "read" /\ t.msgIndex = 4 /\ t.reads = 1

\* the step keeps every message where it is
KeepsAll == \A i \in DOMAIN messages :
              i \in DOMAIN messages' /\ messages'[i] = messages[i]

\* the step keeps every message but the assistant message of the turn in
\* flight, which is last and stays an assistant message
KeepsAllButLast ==
  /\ isStreaming
  /\ Len(messages') = Len(messages)
  /\ messages[Len(messages)].role = "assistant"
  /\ messages'[Len(messages)].role = "assistant"
  /\ \A i \in 1..(Len(messages) - 1) : messages'[i] = messages[i]

\* the step of the expiry recovery that removes the empty placeholder
RemovesPlaceholder ==
  /\ messages # <<>>
  /\ messages[Len(messages)] = AssistantMsg
  /\ messages' = SubSeq(messages, 1, Len(messages) - 1)
  /\ hist.outcome = "pending"
  /\ hist'.outcome = "expired"

\* C22: the message list changes only by appending at its end (and by the
\* growth of the assistant message in flight), except for the removal of the
\* empty placeholder by the expiry recovery; no user message is removed or
\* modified, a step that sets error removes and modifies no message, and the
\* messages of earlier turns never change
C22_AppendOnly ==
  [][/\ KeepsAll \/ KeepsAllButLast \/ RemovesPlaceholder
     /\ \A i \in DOMAIN messages :
          (messages[i].role = "user" \/ i <= Len(hist.before)) =>
            i \in DOMAIN messages' /\ messages'[i] = messages[i]
     /\ (error' # Null /\ error' # error) => messages' = messages
     /\ Idle => KeepsAll]_vars

C22_Witness ==
  /\ Idle
  /\ hist.sends = 2
  /\ hist.outcome = "expired"
  /\ Len(hist.before) = 2
  /\ hist.before[2] = [role |-> "assistant", content |-> Hel]
  /\ messages = hist.before \o << UserMsg(<<"h", "i">>) >>

\* --------------------------------------------------------------- Storage
\* no setThreadId for the tenant is logged strictly between calls i and j
NoSetBetween(tenant, i, j) ==
  \A k \in (i + 1)..(j - 1) :
    ~(hist.log[k].op = "set" /\ hist.log[k].tenant = tenant)

\* C23: a getThreadId for a tenant that follows a clearThreadId for that
\* tenant, with no setThreadId for it in between, returns null, whatever was
\* stored before
C23_ClearThenGet ==
  \A i, j \in DOMAIN hist.log :
    ( /\ i < j
      /\ hist.log[i].op = "clear"
      /\ hist.log[j].op = "get"
      /\ hist.log[j].tenant = hist.log[i].tenant
      /\ NoSetBetween(hist.log[i].tenant, i, j) )
    => hist.log[j].value = Null

C23_Witness ==
  /\ ~storageThrows
  /\ hist.log = << StorageCall("get", "acme", Some(OldThread)),
                   StorageCall("clear", "acme", Null),
                   StorageCall("get", "acme", Null) >>

\* every createThread of the current send that succeeded was followed at
\* once by a sendMessageStream on the thread it returned
SendsOnCreated ==
  \A k \in DOMAIN SendLog :
    SendLog[k].op = "createThread.ok" =>
      /\ k < Len(SendLog)
      /\ SendLog[k + 1].op = "sendMessageStream"
      /\ SendLog[k + 1].thread = SendLog[k].thread

\* C24: when sessionStorage throws on access, getThreadId returns null and
\* setThreadId and clearThreadId leave the store as it is; the failure of the
\* storage ends no turn and sets no error: the submit creates a thread and
\* sends on it, and error is set only after a network call or a read failed
C24_StorageUnavailable ==
  storageThrows =>
    /\ \A k \in StorageKeys : sessionStorage[k] = Null
    /\ hist.sends > 0 =>
         /\ hist.stored = Null
         /\ SendLog # <<>>
         /\ SendLog[1].op = "createThread"
         /\ SendsOnCreated
         /\ error # Null =>
              \/ CountOf(SendLog, {"createThread.fail", "sendMessageStream.fail"}) > 0
              \/ StreamOpened

C24_Witness ==
  /\ storageThrows
  /\ Idle
  /\ hist.sends = 2
  /\ created = 2
  /\ hist.outcome = "ok"
  /\ error = Null
  /\ Len(SendLog) = 4
  /\ SendLog[2].op = "createThread.ok"
  /\ SendLog[3] = Event("sendMessageStream", [root |-> 2, text |-> <<"h", "i">>],
                        Some(ThreadName[2]))

\* --------------------------------------------------------------- ApiClient
\* the calls of op whose fetch was answered by the server
Answered(op) ==
  { k \in DOMAIN hist.log : hist.log[k].op = op /\ hist.log[k].resp.net }

Is2xx(status) == status \in 200..299

C26_CreateValidation ==
  \A k \in Answered("createThread") :
    LET resp == hist.log[k].resp
        r == hist.log[k].result
    IN  /\ r.ok <=> (Is2xx(resp.status) /\ resp.body = "thread")
        /\ r.ok => r.value = ThreadName[1]
        /\ ~Is2xx(resp.status) =>
             r = Thrown(ApiError(resp.status, "Failed to create chat thread"))
        /\ (Is2xx(resp.status) /\ resp.body \in {"nocontent", "nothreadid"}) =>
             /\ ~r.ok
             /\ r.error.api
             /\ Is2xx(r.error.status)
             /\ r.error.message # "Failed to create chat thread"

C26_Witness ==
  \E k \in Answered("createThread") :
    /\ hist.log[k].resp.status = 200
    /\ hist.log[k].resp.body = "nothreadid"
    /\ hist.log[k].result = Thrown(ApiError(200, "No threadId in response"))

\* C27: whatever a call of the ApiClient throws to the controller is one of
\* ThreadExpired, RequestFailed, MalformedResponse (an ApiError) or Cancelled
\* (an AbortError), never a raw exception of the platform
C27_NoRawException ==
  \A k \in DOMAIN hist.log :
    ~hist.log[k].result.ok =>
      \/ hist.log[k].result.error.api
      \/ hist.log[k].result.error.name = "AbortError"

\* ------------------------------------------------------- thread resolution
\* C28: a createThread that succeeded is followed at once by a
\* sendMessageStream on the id it returned, and while that call is pending
\* the sessionStorage (when it is available) already holds that id; a send
\* accepted with a stored id calls sendMessageStream first, with that id
C28_PersistBeforeSend ==
  hist.sends > 0 =>
    /\ SendsOnCreated
    /\ \A t \in tasks :
         (t.pc = "sendMessageStream" /\ ~storageThrows) =>
           sessionStorage[getThreadKey("acme")] = t.threadId
    /\ \A t \in tasks :
         t.pc = "sendMessageStream" =>
           /\ SendLog[Len(SendLog)].op = "sendMessageStream"
           /\ SendLog[Len(SendLog)].thread = t.threadId
    /\ (hist.stored # Null /\ hist.stored # Some(Sentinel)) =>
         /\ SendLog[1].op = "sendMessageStream"
         /\ SendLog[1].thread = hist.stored

C28_Witness ==
  /\ ~storageThrows
  /\ hist.stored = Null
  /\ Len(SendLog) = 3
  /\ SendLog[2].op = "createThread.ok"
  /\ SendLog[2].thread = Some(ThreadName[1])
  /\ sessionStorage[getThreadKey("acme")] = Some(ThreadName[1])
  /\ \E t \in tasks : t.pc = "sendMessageStream" /\ t.threadId = Some(ThreadName[1])

\* C29: a stored value "undefined" counts as no thread id: the submit calls
\* createThread first, the id a successful createThread returns replaces the
\* stored value, and no sendMessageStream is ever called with "undefined" as
\* its thread id
C29_SentinelIsAbsent ==
  /\ \A k \in DOMAIN hist.log :
       hist.log[k].op = "sendMessageStream" => hist.log[k].thread # Some(Sentinel)
  /\ \A t \in tasks : t.threadId # Some(Sentinel)
  /\ (hist.sends > 0 /\ hist.stored = Some(Sentinel)) =>
       /\ SendLog # <<>>
       /\ SendLog[1].op = "createThread"
       /\ CountOf(SendLog, {"createThread.ok"}) = 0 =>
            sessionStorage[getThreadKey("acme")] = Some(Sentinel)
       /\ (/\ CountOf(SendLog, {"createThread.ok"}) > 0
           /\ CountOf(SendLog, {"sendMessageStream.expired"}) = 0) =>
            /\ sessionStorage[getThreadKey("acme")] = SendLog[2].thread
            /\ SendLog[2].thread # Some(Sentinel)

C29_Witness ==
  /\ Idle
  /\ hist.stored = Some(Sentinel)
  /\ hist.outcome = "ok"
  /\ SendLog[3] = Event("sendMessageStream", [root |-> 1, text |-> <<"h", "i">>],
                        Some(ThreadName[1]))
  /\ sessionStorage[getThreadKey("acme")] = Some(ThreadName[1])

\* ------------------------------------------------------------------ expiry
\* the text of the current send, as it was submitted
SentText == messages[Len(hist.before) + 1].content

\* after the ThreadExpired a thread was created and sendMessageStream was
\* called on it with the text of the send
Resent(log, text) ==
  \E i, j, k \in DOMAIN log :
    /\ i < j /\ j < k
    /\ log[i].op = "sendMessageStream.expired"
    /\ log[j].op = "createThread.ok"
    /\ log[k].op = "sendMessageStream"
    /\ log[k].thread = log[j].thread
    /\ log[k].text = text

\* C30: the step in which a send that hit ThreadExpired gives up leaves the
\* controller Idle with the text of the send in the input value, unless the
\* text was sent again on a freshly created thread: the text is not lost
C30_TextNotLost ==
  [][(hist.outcome = "pending" /\ hist'.outcome = "expired") =>
       /\ IsTrimOf(SentText, hist.rawText)
       /\ ~isStreaming' /\ tasks' = {}
       /\ \/ inputValue' = SentText
          \/ Resent(hist'.log, SentText)]_vars

C30_Witness ==
  /\ Idle
  /\ hist.sends = 1
  /\ hist.outcome = "expired"
  /\ hist.rawText = <<" ", "h", "i", " ">>
  /\ inputValue = <<"h", "i">>
  /\ messages = << UserMsg(<<"h", "i">>) >>
  /\ sessionStorage[getThreadKey("acme")] = Null
  /\ ~Resent(hist.log, <<"h", "i">>)

\* ------------------------------------------------------------ later claims
\* C31: a createThread that failed, with 404 or otherwise, is not handled as
\* an expiry: it is the last event of the send (no retry), the stored value
\* is what it was when the submit was accepted, the list still ends with the
\* user message of the send, and the failure is the error of the turn
C31_CreateFailureIsNotExpiry ==
  (hist.sends > 0 /\ CountOf(SendLog, {"createThread.fail"}) > 0) =>
    /\ Len(SendLog) = 2
    /\ hist.retries = 0
    /\ hist.outcome = "error"
    /\ hist.errorSets = 1
    /\ error \in {Some("Failed to create chat thread"),
                  Some("Failed to fetch"),
                  Some("Unexpected token < in JSON"),
                  Some("Invalid thread creation response"),
                  Some("No threadId in response")}
    /\ sessionStorage[getThreadKey("acme")] = hist.stored
    /\ messages = hist.before \o << UserMsg(SendLog[1].text) >>

C31_Witness ==
  /\ Idle
  /\ hist.stored = Some(Sentinel)
  /\ sessionStorage[getThreadKey("acme")] = Some(Sentinel)
  /\ SendLog[Len(SendLog)].op = "createThread.fail"
  /\ error = Some("Failed to create chat thread")
  /\ messages = << UserMsg(<<"h", "i">>) >>
  /\ inputValue = <<>>

\* between two steps the AbortController is held exactly while isStreaming
\* is true, it is the one of the latest accepted invocation, every suspended
\* invocation listens to it, and no other controller has been aborted
TokenHeldWhileStreaming ==
  /\ (abortController # Null) <=> isStreaming
  /\ isStreaming => abortController = Some(invocations)
  /\ \A t \in tasks : isStreaming /\ t.signal = invocations
  /\ aborted \subseteq (IF isStreaming THEN {invocations} ELSE {})

\* C32: the cancellation token is held if and only if isStreaming is true;
\* the step that accepts a submit allocates a token that was never held nor
\* aborted before, and the step that ends a submission releases it, so an
\* abort at teardown reaches only the submission in flight
C32_TokenScope ==
  [][/\ TokenHeldWhileStreaming'
     /\ invocations' # invocations =>
          /\ invocations' > invocations
          /\ abortController # Some(invocations')
          /\ invocations' \notin aborted \cup aborted'
          /\ \A t \in tasks : t.signal # invocations'
          /\ abortController' = Some(invocations') \/ abortController' = Null
     /\ (isStreaming /\ ~isStreaming') => (abortController' = Null /\ aborted' = {})
     /\ aborted' # aborted =>
          aborted' \subseteq {t.signal : t \in tasks'}]_vars

C32_Witness ==
  /\ isStreaming
  /\ hist.sends = 2
  /\ invocations = 2
  /\ abortController = Some(2)
  /\ aborted = {2}
  /\ \E t \in tasks : t.signal = 2 /\ t.pc = "read"

\* C33: whenever the expiry recovery of an instance calls clearThreadId, the
\* store holds the thread id that was reported expired or nothing, also when
\* two instances with the same tenant interleave their submits
C33_ClearsOnlyExpired ==
  \A k \in DOMAIN hist.log :
    hist.log[k].op = "clear" =>
      \/ hist.log[k].held = Null
      \/ hist.log[k].held = hist.log[k].thread

\* C34: every assistant message of the list is immediately preceded by a
\* user message, and no message has another role than user or assistant (in
\* particular none has the role system)
C34_AssistantFollowsUser ==
  \A i \in DOMAIN messages :
    /\ messages[i].role \in {"user", "assistant"}
    /\ messages[i].role = "assistant" =>
         /\ i > 1
         /\ messages[i - 1].role = "user"

C34_Witness ==
  /\ Idle
  /\ hist.sends = 2
  /\ Len(messages) = 4
  /\ messages[2].role = "assistant"
  /\ messages[4].role = "assistant"
  /\ messages[4].content # <<>>

\* C35: when sendMessageStream or the reading of the stream fails with an
\* error that is neither the expiry nor the cancellation, the placeholder is
\* not taken back: the turn ends with the user message followed by one
\* assistant message holding exactly the deltas applied before the failure,
\* and the stored thread id is the one the failure found
C35_FailureKeepsPlaceholder ==
  (/\ Idle
   /\ hist.sends > 0
   /\ hist.outcome = "error"
   /\ CountOf(SendLog, {"sendMessageStream"}) > 0) =>
     LET sent == EventsOf(SendLog, {"sendMessageStream"})[1]
     IN  /\ SinceSubmit = << UserMsg(sent.text),
                             [role |-> "assistant", content |-> Flat(hist.deltas)] >>
         /\ error # Null
         /\ sessionStorage[getThreadKey("acme")] =
              IF CountOf(SendLog, {"createThread.ok"}) > 0 /\ ~storageThrows
              THEN sent.thread ELSE hist.stored

C35_Witness ==
  /\ Idle
  /\ hist.outcome = "error"
  /\ StreamOpened
  /\ hist.deltas = << Hel >>
  /\ Assistant = [role |-> "assistant", content |-> Hel]
  /\ error # Null
  /\ sessionStorage[getThreadKey("acme")] = Some(OldThread)

\* C36: a submit that the validation rejects issues neither createThread nor
\* sendMessageStream and leaves error, isStreaming, the input value and the
\* AbortController as they were; in particular it does not clear an error
\* left by an earlier send
C36_RejectedSubmitInert ==
  [][ (HandleKeyDown /\ (\/ AllSpaces(inputValue)
                         \/ isStreaming
                         \/ tenantId = ""
                         \/ apiBaseUrl = "")) =>
        /\ error' = error
        /\ isStreaming' = isStreaming
        /\ inputValue' = inputValue
        /\ abortController' = abortController
        /\ aborted' = aborted
        /\ tasks' = tasks
        /\ invocations' = invocations
        /\ hist'.log = hist.log
    ]_vars

C36_Witness ==
  /\ hist.lastSubmit = "rejected: empty"
  /\ hist.outcome = "error"
  /\ error # Null
  /\ ~isStreaming
  /\ abortController = Null

\* C38: with sessionStorage available the store is a map keyed by tenant: a
\* getThreadId for a tenant returns the id of the latest setThreadId for that
\* tenant when no clearThreadId for it came after, and calls for other
\* tenants between two getThreadId for a tenant do not change what it returns
LastWrite(log, k) ==
  LET writes == { j \in 1..(k - 1) : /\ log[j].tenant = log[k].tenant
                                     /\ log[j].op \in {"set", "clear"} }
  IN  IF writes = {} THEN 0
      ELSE CHOOSE j \in writes : \A i \in writes : i <= j

C38_StoreIsMapByTenant ==
  ~storageThrows =>
    \A k \in DOMAIN hist.log :
      hist.log[k].op = "get" =>
        LET w == LastWrite(hist.log, k)
        IN  /\ (w > 0 /\ hist.log[w].op = "set") =>
                 hist.log[k].value = hist.log[w].value
            /\ \A j \in (w + 1)..(k - 1) :
                 (hist.log[j].op = "get" /\ hist.log[j].tenant = hist.log[k].tenant) =>
                   hist.log[j].value = hist.log[k].value

C38_Witness ==
  /\ ~storageThrows
  /\ hist.log = << StorageCall("set", "acme", Some(ThreadName[1])),
                   StorageCall("set", "beta", Some(ThreadName[2])),
                   StorageCall("get", "acme", Some(ThreadName[1])) >>

\* C39: bumpVersion on a version major.minor.patch of non-negative integers
\* returns major.minor.(patch+1) for patch, major.(minor+1).0 for minor and
\* (major+1).0.0 for major
VersionOf(a, b, c) ==
  ToString(a) \o <<".">> \o ToString(b) \o <<".">> \o ToString(c)

C39_BumpVersion ==
  \A k \in DOMAIN hist.log :
    \A a, b, c \in 0..MaxPart :
      hist.log[k].current = VersionOf(a, b, c) =>
        hist.log[k].result =
          CASE hist.log[k].type = "patch" -> VersionOf(a, b, c + 1)
            [] hist.log[k].type = "minor" -> VersionOf(a, b + 1, 0)
            [] hist.log[k].type = "major" -> VersionOf(a + 1, 0, 0)

C39_Witness ==
  /\ hist.log # <<>>
  /\ hist.log[1].op = "bumpVersion"
  /\ hist.log[1].current = <<"1", ".", "9", ".", "1", "0">>
  /\ hist.log[1].type = "minor"
  /\ hist.log[1].result = <<"1", ".", "1", "0", ".", "0">>
====
